---- MODULE Spec2Model ----
(***************************************************************************)
(* A model of torch_frame's concatenation of tensor frames                 *)
(* (torch_frame/utils/concat.py) and of its column statistics              *)
(* (torch_frame/data/stats.py).                                            *)
(*                                                                         *)
(* A Python dict is a record [keys, map]: keys is the insertion order,     *)
(* map the function on the key set.  Two dicts are equal (Python's ==)     *)
(* when their maps are equal; the insertion order does not count.          *)
(* A dense tensor of shape [rows, cols] is a sequence of rows, each a      *)
(* sequence of values.  A MultiNestedTensor is a flat value buffer with    *)
(* rows*cols+1 offsets, row-major.  A call either returns a value or       *)
(* raises: [ok |-> TRUE, ...] or [ok |-> FALSE, err |-> kind, ...].        *)
(***************************************************************************)
EXTENDS Integers, Sequences, FiniteSets, TLC

VARIABLES pool, tf_list, along, result, calls, ser, stype_arg, sep, stats

vars == <<pool, tf_list, along, result, calls, ser, stype_arg, sep, stats>>

-----------------------------------------------------------------------------
(* Bounds of the model *)

\* Largest size of the list of frames a caller starts from: one per frame
\* plus one per tensor element (rows * (columns + target)) of it.
MaxSize == 6

\* Largest number of cat calls in a row, each later call taking the frame
\* the call before it returned among its inputs.
MaxCalls == 2

\* Largest size of the column compute_col_stats is given: one per value
\* plus one per item of a sequence or character of a string.
MaxEntries == 4

\* Largest number of values of the categorical column compute_col_stats is
\* given.
MaxColumn == 6

Names == {"a", "b"}

Values == {0, 1}

\* What one cell of a ragged column may hold.
RaggedCells == {<<>>, <<1>>}

\* The semantic types of the model: one stored as a dense tensor and one
\* stored as a MultiNestedTensor.
Stypes == {"numerical", "multicategorical"}

-----------------------------------------------------------------------------
(* Helpers on sequences *)

Range(s) == {s[i] : i \in DOMAIN s}

RECURSIVE SeqSum(_)
SeqSum(s) == IF s = <<>> THEN 0 ELSE Head(s) + SeqSum(Tail(s))

RECURSIVE Flatten(_)
Flatten(ss) == IF ss = <<>> THEN <<>> ELSE Head(ss) \o Flatten(Tail(ss))

\* s with every element already in it before dropped (first occurrences).
RECURSIVE Dedup(_)
Dedup(s) ==
    IF s = <<>> THEN <<>>
    ELSE LET init == Dedup(SubSeq(s, 1, Len(s) - 1))
             last == s[Len(s)]
         IN  IF last \in Range(init) THEN init ELSE Append(init, last)

Count(s, x) == Cardinality({i \in DOMAIN s : s[i] = x})

-----------------------------------------------------------------------------
(* Python values *)

NoneY == [is_none |-> TRUE, data |-> <<>>]

SomeY(d) == [is_none |-> FALSE, data |-> d]

NoFrame == [feat_dict |-> [keys |-> <<>>, map |-> <<>>],
            col_names_dict |-> [keys |-> <<>>, map |-> <<>>],
            y |-> NoneY]

Returned(tf, n) ==
    [ok |-> TRUE, tf |-> tf, err |-> "none", stype |-> "none",
     names |-> <<>>, storage_cats |-> n]

Raised(kind, st, nm, n) ==
    [ok |-> FALSE, tf |-> NoFrame, err |-> kind, stype |-> st,
     names |-> nm, storage_cats |-> n]

NoCall == Raised("no call", "none", <<>>, 0)

-----------------------------------------------------------------------------
(* Dense tensors (torch.Tensor) *)

DenseRows(t) == Len(t)

DenseCols(t) == IF t = <<>> THEN 0 ELSE Len(t[1])

TensorOk(t) == [ok |-> TRUE, val |-> t]

TensorError == [ok |-> FALSE, val |-> <<>>]

\* Mutant of TorchCat: along the columns the rows are cut to the shortest
\* input instead of the sizes being checked.
TorchCat_cut_rows(ts, dim) ==
    IF dim = 0
    THEN IF \A i \in DOMAIN ts : DenseCols(ts[i]) = DenseCols(ts[1])
         THEN TensorOk(Flatten(ts))
         ELSE TensorError
    ELSE LET n == CHOOSE n \in {DenseRows(ts[i]) : i \in DOMAIN ts} :
                      \A i \in DOMAIN ts : n <= DenseRows(ts[i])
         IN  TensorOk([r \in 1..n |-> Flatten([i \in DOMAIN ts |-> ts[i][r]])])

\* torch.cat(ts, dim) of 2-D tensors: the sizes must agree in the other
\* dimension, else torch raises.
TorchCat(ts, dim) ==
    IF dim = 0
    THEN IF \A i \in DOMAIN ts : DenseCols(ts[i]) = DenseCols(ts[1])
         THEN TensorOk(Flatten(ts))
         ELSE TensorError
    ELSE IF \A i \in DOMAIN ts : DenseRows(ts[i]) = DenseRows(ts[1])
         THEN TensorOk([r \in 1..DenseRows(ts[1]) |->
                           Flatten([i \in DOMAIN ts |-> ts[i][r]])])
         ELSE TensorError

\* torch.cat(ys, dim=0) of 1-D tensors.
TorchCat1D(ys) == Flatten(ys)

-----------------------------------------------------------------------------
(* MultiNestedTensor: ragged cells in a [num_rows, num_cols] grid *)

\* The tensor holding cells[r][c] (a sequence of values) at row r, column c.
MNTFromCells(cells, ncols) ==
    LET flat == Flatten(cells)
    IN  [num_rows |-> Len(cells),
         num_cols |-> ncols,
         values   |-> Flatten(flat),
         offset   |-> [k \in 1..(Len(flat) + 1) |->
                          SeqSum([j \in 1..(k - 1) |-> Len(flat[j])])]]

MNTCell(t, r, c) ==
    LET k == (r - 1) * t.num_cols + c
    IN  SubSeq(t.values, t.offset[k] + 1, t.offset[k + 1])

MNTCells(t) ==
    [r \in 1..t.num_rows |-> [c \in 1..t.num_cols |-> MNTCell(t, r, c)]]

\* Row concatenation: the buffers end to end, the later offsets re-based
\* by the running length.
RECURSIVE MNTCatRows(_)
MNTCatRows(ts) ==
    IF Len(ts) = 1 THEN ts[1]
    ELSE LET acc == MNTCatRows(SubSeq(ts, 1, Len(ts) - 1))
             t   == ts[Len(ts)]
         IN  [num_rows |-> acc.num_rows + t.num_rows,
              num_cols |-> acc.num_cols,
              values   |-> acc.values \o t.values,
              offset   |-> acc.offset \o
                           [k \in 1..(Len(t.offset) - 1) |->
                               t.offset[k + 1] + Len(acc.values)]]

\* MultiNestedTensor.cat(ts, dim): dim 0 needs equal column counts, dim 1
\* equal row counts; along dim 1 row r of the result is row r of every
\* input, in input order.
MNTCat(ts, dim) ==
    IF dim = 0
    THEN IF \A i \in DOMAIN ts : ts[i].num_cols = ts[1].num_cols
         THEN TensorOk(MNTCatRows(ts))
         ELSE TensorError
    ELSE IF \A i \in DOMAIN ts : ts[i].num_rows = ts[1].num_rows
         THEN TensorOk(MNTFromCells(
                  [r \in 1..ts[1].num_rows |->
                      Flatten([i \in DOMAIN ts |-> MNTCells(ts[i])[r]])],
                  SeqSum([i \in DOMAIN ts |-> ts[i].num_cols])))
         ELSE TensorError

-----------------------------------------------------------------------------
(* Semantic types and frames *)

\* stype.use_multi_nested_tensor
use_multi_nested_tensor(stype) == stype = "multicategorical"

FeatRows(stype, feat) ==
    IF use_multi_nested_tensor(stype) THEN feat.num_rows ELSE DenseRows(feat)

FeatCols(stype, feat) ==
    IF use_multi_nested_tensor(stype) THEN feat.num_cols ELSE DenseCols(feat)

\* The cells of a storage as a grid, whatever its representation.
FeatGrid(stype, feat) ==
    IF use_multi_nested_tensor(stype) THEN MNTCells(feat) ELSE feat

\* TensorFrame.num_rows: the row count of the first storage.
num_rows(tf) ==
    FeatRows(tf.feat_dict.keys[1], tf.feat_dict.map[tf.feat_dict.keys[1]])

\* Invariant 1: a storage has as many columns as its type has names.
ColumnCountsMatch(feat_dict, col_names_dict) ==
    \A st \in DOMAIN feat_dict.map :
        FeatCols(st, feat_dict.map[st]) = Len(col_names_dict.map[st])

\* Invariant 2: all storages and the target share one row count.
RowCountsMatch(feat_dict, y) ==
    /\ \A s1, s2 \in DOMAIN feat_dict.map :
          FeatRows(s1, feat_dict.map[s1]) = FeatRows(s2, feat_dict.map[s2])
    /\ y.is_none \/ \A st \in DOMAIN feat_dict.map :
          Len(y.data) = FeatRows(st, feat_dict.map[st])

\* Invariant 3: names are unique within a semantic type.
NamesUnique(col_names_dict) ==
    \A st \in DOMAIN col_names_dict.map :
        \A i, j \in DOMAIN col_names_dict.map[st] :
            col_names_dict.map[st][i] = col_names_dict.map[st][j] => i = j

\* Invariant 4: a semantic type in storage has at least one column.
NoEmptyStype(feat_dict, col_names_dict) ==
    /\ feat_dict.keys # <<>>
    /\ \A st \in DOMAIN feat_dict.map : FeatCols(st, feat_dict.map[st]) >= 1

SameStypes(feat_dict, col_names_dict) ==
    DOMAIN feat_dict.map = DOMAIN col_names_dict.map

FrameInvariants(tf) ==
    /\ SameStypes(tf.feat_dict, tf.col_names_dict)
    /\ ColumnCountsMatch(tf.feat_dict, tf.col_names_dict)
    /\ RowCountsMatch(tf.feat_dict, tf.y)
    /\ NamesUnique(tf.col_names_dict)
    /\ NoEmptyStype(tf.feat_dict, tf.col_names_dict)

\* TensorFrame(feat_dict, col_names_dict, y): the invariants are checked at
\* construction; n counts the storage concatenations made before it.
TensorFrame(feat_dict, col_names_dict, y, n) ==
    IF ~SameStypes(feat_dict, col_names_dict)
    THEN Raised("InvalidFrame", "none", <<>>, n)
    ELSE IF ~ColumnCountsMatch(feat_dict, col_names_dict)
    THEN Raised("InvalidFrame", "none", <<>>, n)
    ELSE IF ~RowCountsMatch(feat_dict, y)
    THEN Raised("RowCountMismatch", "none", <<>>, n)
    ELSE IF ~NamesUnique(col_names_dict)
    THEN Raised("InvalidFrame", "none", <<>>, n)
    ELSE IF ~NoEmptyStype(feat_dict, col_names_dict)
    THEN Raised("InvalidFrame", "none", <<>>, n)
    ELSE Returned([feat_dict |-> feat_dict,
                   col_names_dict |-> col_names_dict, y |-> y], n)

-----------------------------------------------------------------------------
(* torch_frame/utils/concat.py *)

\* Mutant of FeatList: each storage is put in front of the list.
RECURSIVE FeatList_prepend(_, _)
FeatList_prepend(tfs, st) ==
    IF tfs = <<>> THEN <<>>
    ELSE LET rest == FeatList_prepend(Tail(tfs), st)
         IN  IF st \in DOMAIN Head(tfs).feat_dict.map
             THEN rest \o <<Head(tfs).feat_dict.map[st]>>
             ELSE rest

\* The storages of semantic type st in the frames that have it, in order.
RECURSIVE FeatList(_, _)
FeatList(tfs, st) ==
    IF tfs = <<>> THEN <<>>
    ELSE LET rest == FeatList(Tail(tfs), st)
         IN  IF st \in DOMAIN Head(tfs).feat_dict.map
             THEN <<Head(tfs).feat_dict.map[st]>> \o rest
             ELSE rest

\* The keys of feat_list_dict: the semantic types in the order in which the
\* loop over the frames first meets them.
FeatListKeys(tfs) == Dedup(Flatten([i \in DOMAIN tfs |-> tfs[i].feat_dict.keys]))

\* The concatenation _cat_helper picks for a semantic type.  The branch for
\* dicts of MultiNestedTensors concatenates each member the same way; no
\* semantic type of the model takes it.
CatStorage(st, feat_list, dim) ==
    IF use_multi_nested_tensor(st)
    THEN MNTCat(feat_list, dim)
    ELSE TorchCat(feat_list, dim)

\* _cat_helper(tf_list, dim): the concatenated feat_dict, or the failure of
\* the first concatenation that raises; cats counts the concatenations
\* made.
_cat_helper(tfs, dim) ==
    LET keys   == FeatListKeys(tfs)
        cat_of == [st \in Range(keys) |-> CatStorage(st, FeatList(tfs, st), dim)]
        bad    == {k \in DOMAIN keys : ~cat_of[keys[k]].ok}
    IN  IF bad = {}
        THEN [ok |-> TRUE,
              feat_dict |-> [keys |-> keys,
                             map  |-> [st \in Range(keys) |-> cat_of[st].val]],
              cats |-> Len(keys)]
        ELSE [ok |-> FALSE,
              feat_dict |-> [keys |-> <<>>, map |-> <<>>],
              cats |-> CHOOSE k \in bad : \A j \in bad : k <= j]

\* Mutant of DictDiffers: the names of a type are compared as sets.
DictDiffers_unordered(d1, d2) ==
    [st \in DOMAIN d1.map |-> Range(d1.map[st])]
        # [st \in DOMAIN d2.map |-> Range(d2.map[st])]

\* tf.col_names_dict != col_names_dict
DictDiffers(d1, d2) == d1.map # d2.map

\* The arguments _cat_row passes to TensorFrame once its checks passed.
_cat_row_args(tfs) ==
    [feat |-> _cat_helper(tfs, 0),
     col_names_dict |-> tfs[1].col_names_dict,
     y |-> IF tfs[1].y.is_none THEN NoneY
           ELSE SomeY(TorchCat1D([i \in DOMAIN tfs |-> tfs[i].y.data]))]

\* Mutant of _cat_row: the targets are compared only when the first frame
\* has none.
_cat_row_one_sided(tfs) ==
    IF \E i \in 2..Len(tfs) :
           DictDiffers(tfs[i].col_names_dict, tfs[1].col_names_dict)
    THEN Raised("SchemaMismatch", "none", <<>>, 0)
    ELSE IF tfs[1].y.is_none /\ ~(\A i \in DOMAIN tfs : tfs[i].y.is_none)
    THEN Raised("TargetMismatch", "none", <<>>, 0)
    ELSE LET a == _cat_row_args(tfs)
         IN  IF ~a.feat.ok
             THEN Raised("ColumnCountMismatch", "none", <<>>, a.feat.cats)
             ELSE TensorFrame(a.feat.feat_dict, a.col_names_dict, a.y,
                              a.feat.cats)

_cat_row(tfs) ==
    IF \E i \in 2..Len(tfs) :
           DictDiffers(tfs[i].col_names_dict, tfs[1].col_names_dict)
    THEN Raised("SchemaMismatch", "none", <<>>, 0)
    ELSE IF tfs[1].y.is_none /\ ~(\A i \in DOMAIN tfs : tfs[i].y.is_none)
    THEN Raised("TargetMismatch", "none", <<>>, 0)
    ELSE IF ~tfs[1].y.is_none /\ ~(\A i \in DOMAIN tfs : ~tfs[i].y.is_none)
    THEN Raised("TargetMismatch", "none", <<>>, 0)
    ELSE LET a == _cat_row_args(tfs)
         IN  IF ~a.feat.ok
             THEN Raised("ColumnCountMismatch", "none", <<>>, a.feat.cats)
             ELSE TensorFrame(a.feat.feat_dict, a.col_names_dict, a.y,
                              a.feat.cats)

\* Mutant of _get_duplicates: count > 2.
_get_duplicates_more_than_twice(lst) ==
    SelectSeq(Dedup(lst), LAMBDA item : Count(lst, item) > 2)

\* Mutant of _get_duplicates: nothing is reported.
_get_duplicates_none(lst) == SelectSeq(lst, LAMBDA item : FALSE)

\* _get_duplicates(lst): the items that occur more than once, in the order
\* of their first occurrence.
_get_duplicates(lst) ==
    SelectSeq(Dedup(lst), LAMBDA item : Count(lst, item) > 1)

\* Mutant of idx_with_non_nan_y: only the first frame is looked at.
idx_with_non_nan_y_first(tfs) == {i \in DOMAIN tfs : i = 1 /\ ~tfs[i].y.is_none}

\* idx_with_non_nan_y
idx_with_non_nan_y(tfs) == {i \in DOMAIN tfs : ~tfs[i].y.is_none}

\* Mutant of MergedColNames: each frame's names are put in front.
MergedColNames_prepend(tfs) ==
    LET keys == Dedup(Flatten([i \in DOMAIN tfs |-> tfs[i].col_names_dict.keys]))
    IN  [keys |-> keys,
         map  |-> [st \in Range(keys) |->
                     Flatten([i \in DOMAIN tfs |->
                         LET j == Len(tfs) + 1 - i
                         IN  IF st \in DOMAIN tfs[j].col_names_dict.map
                             THEN tfs[j].col_names_dict.map[st]
                             ELSE <<>>])]]

\* The merged col_names_dict of _cat_col: per semantic type the frames'
\* lists one after the other, the types in first-met order.
MergedColNames(tfs) ==
    LET keys == Dedup(Flatten([i \in DOMAIN tfs |-> tfs[i].col_names_dict.keys]))
    IN  [keys |-> keys,
         map  |-> [st \in Range(keys) |->
                     Flatten([i \in DOMAIN tfs |->
                         IF st \in DOMAIN tfs[i].col_names_dict.map
                         THEN tfs[i].col_names_dict.map[st]
                         ELSE <<>>])]]

\* The semantic types of the merged dict that hold a duplicated name, as
\* positions in its key order.
DuplicatedAt(merged) ==
    {k \in DOMAIN merged.keys : _get_duplicates(merged.map[merged.keys[k]]) # <<>>}

\* The arguments _cat_col passes to TensorFrame once its checks passed.
_cat_col_args(tfs) ==
    [feat |-> _cat_helper(tfs, 1),
     col_names_dict |-> MergedColNames(tfs),
     y |-> IF idx_with_non_nan_y(tfs) = {} THEN NoneY
           ELSE tfs[CHOOSE i \in idx_with_non_nan_y(tfs) : TRUE].y]

_cat_col(tfs) ==
    IF Cardinality(idx_with_non_nan_y(tfs)) > 1
    THEN Raised("AmbiguousTargetError", "none", <<>>, 0)
    ELSE LET merged == MergedColNames(tfs)
             dups   == DuplicatedAt(merged)
         IN  IF dups # {}
             THEN LET k == CHOOSE k \in dups : \A j \in dups : k <= j
                  IN  Raised("DuplicateColumnError", merged.keys[k],
                             _get_duplicates(merged.map[merged.keys[k]]), 0)
             ELSE LET a == _cat_col_args(tfs)
                  IN  IF ~a.feat.ok
                      THEN Raised("RowCountMismatch", "none", <<>>, a.feat.cats)
                      ELSE TensorFrame(a.feat.feat_dict, a.col_names_dict,
                                       a.y, a.feat.cats)

cat(tfs, along_arg) ==
    IF Len(tfs) = 0 THEN Raised("EmptyInputError", "none", <<>>, 0)
    ELSE IF along_arg = "row" THEN _cat_row(tfs)
    ELSE IF along_arg = "col" THEN _cat_col(tfs)
    ELSE Raised("ValueError", "none", <<>>, 0)

-----------------------------------------------------------------------------
(* torch_frame/data/stats.py: the values of a column *)

\* A value of a column (pandas Series): missing (None or NaN), a float, a
\* list of floats, or a string (a list of characters).
Missing == [kind |-> "missing", v |-> 0, items |-> <<>>]

Float(kind, v) == [kind |-> kind, v |-> v, items |-> <<>>]

ListOf(items) == [kind |-> "list", v |-> 0, items |-> items]

Str(chars) == [kind |-> "str", v |-> 0, items |-> chars]

FiniteValues == {1, 2}

Floats == {Float("finite", v) : v \in FiniteValues}
              \cup {Float("inf", 0), Float("-inf", 0)}

\* The floats a list may hold: NaN is one of them.
ListItems == Floats \cup {Float("nan", 0)}

Chars == {"x", "y", "/"}

\* The labels a categorical column may hold.
Categories == {"a", "b", "c"}

StatStypes ==
    {"numerical", "sequence_numerical", "categorical", "multicategorical",
     "text_embedded"}

SeqsOf(S, n) == [1..n -> S]

\* The values of a column of semantic type st that take n entries.
Elements(st, n) ==
    IF st = "numerical"
    THEN IF n = 1 THEN Floats \cup {Missing} ELSE {}
    ELSE IF st = "sequence_numerical"
    THEN {ListOf(l) : l \in SeqsOf(ListItems, n - 1)}
             \cup IF n = 1 THEN {Missing} ELSE {}
    ELSE IF st = "multicategorical"
    THEN (IF n >= 2 THEN {Str(c) : c \in SeqsOf(Chars, n - 1)} ELSE {})
             \cup IF n = 1 THEN {Missing} ELSE {}
    ELSE IF st = "categorical"
    THEN IF n = 1 THEN {Missing} \cup {Str(<<c>>) : c \in Categories} ELSE {}
    ELSE IF n = 1 THEN {Missing}
    ELSE IF n = 2 THEN {Str(<<c>>) : c \in Chars \ {"/"}}
    ELSE {}

EntriesOf(e) == 1 + Len(e.items)

\* How many more entries a column of semantic type st may take: a
\* categorical column is measured by its number of values.
Room(st, values) ==
    IF st = "categorical" THEN MaxColumn - Len(values)
    ELSE MaxEntries - SeqSum([i \in DOMAIN values |-> EntriesOf(values[i])])

NoneSep == [is_none |-> TRUE, s |-> ""]

SomeSep(c) == [is_none |-> FALSE, s |-> c]

-----------------------------------------------------------------------------
(* Numbers a statistic may be *)

RECURSIVE Gcd(_, _)
Gcd(a, b) == IF b = 0 THEN a ELSE Gcd(b, a % b)

Abs(a) == IF a < 0 THEN -a ELSE a

NaN == [kind |-> "nan", num |-> 0, den |-> 1]

\* The rational n/d, d > 0, in lowest terms.
Rat(n, d) ==
    LET g == Gcd(Abs(n), d)
    IN  [kind |-> "rat", num |-> n \div g, den |-> d \div g]

\* The square root of the rational n/d.
SqrtOf(n, d) ==
    LET g == Gcd(Abs(n), d)
    IN  [kind |-> "sqrt", num |-> n \div g, den |-> d \div g]

RECURSIVE Insert(_, _)
Insert(x, sorted) ==
    IF sorted = <<>> THEN <<x>>
    ELSE IF x <= Head(sorted) THEN <<x>> \o sorted
    ELSE <<Head(sorted)>> \o Insert(x, Tail(sorted))

RECURSIVE Sorted(_)
Sorted(xs) == IF xs = <<>> THEN <<>> ELSE Insert(Head(xs), Sorted(Tail(xs)))

\* np.mean(xs) of a non-empty array of finite numbers.
NpMean(xs) == Rat(SeqSum(xs), Len(xs))

\* np.std(xs): the population standard deviation.
NpStd(xs) ==
    SqrtOf(Len(xs) * SeqSum([i \in DOMAIN xs |-> xs[i] * xs[i]])
               - SeqSum(xs) * SeqSum(xs),
           Len(xs) * Len(xs))

\* np.quantile(xs, q = k/4), linear interpolation between the neighbours
\* of position (n - 1) * q in the sorted array.
NpQuantile(xs, k) ==
    LET s   == Sorted(xs)
        pos == (Len(xs) - 1) * k
        lo  == pos \div 4 + 1
        hi  == IF lo < Len(xs) THEN lo + 1 ELSE lo
    IN  Rat(4 * s[lo] + (pos % 4) * (s[hi] - s[lo]), 4)

-----------------------------------------------------------------------------
(* torch_frame/data/stats.py *)

\* StatType.stats_for_stype(stype), in the order of the list.
stats_for_stype(stype) ==
    IF stype \in {"numerical", "sequence_numerical"}
    THEN <<"MEAN", "STD", "QUANTILES">>
    ELSE IF stype = "categorical" THEN <<"COUNT">>
    ELSE IF stype = "multicategorical" THEN <<"MULTI_COUNT">>
    ELSE <<>>

\* _default_values[stat_type]
_default_values(stat_type) ==
    IF stat_type \in {"MEAN", "STD"} THEN NaN
    ELSE IF stat_type = "QUANTILES" THEN <<NaN, NaN, NaN, NaN, NaN>>
    ELSE <<<<>>, <<>>>>

Computed(val) == [ok |-> TRUE, err |-> "none", val |-> val]

Failed(err) == [ok |-> FALSE, err |-> err, val |-> <<>>]

\* np.hstack(np.hstack(ser.values)): the floats of the column, the lists
\* opened; the second hstack raises when it is given no element at all.
Hstack(values) ==
    Flatten([i \in DOMAIN values |->
                IF values[i].kind = "list" THEN values[i].items
                ELSE <<values[i]>>])

\* flattened[np.isfinite(flattened)]
FiniteOf(flattened) ==
    LET kept == SelectSeq(flattened, LAMBDA x : x.kind = "finite")
    IN  [i \in DOMAIN kept |-> kept[i].v]

\* MultiCategoricalTensorMapper.split_by_sep(row, sep): the tokens between
\* the separators, the empty ones left out.
RECURSIVE split_by_sep(_, _)
split_by_sep(chars, s) ==
    IF chars = <<>> THEN <<>>
    ELSE LET ends == {i \in DOMAIN chars : chars[i] = s}
             cut  == IF ends = {} THEN Len(chars) + 1
                     ELSE CHOOSE i \in ends : \A j \in ends : i <= j
             rest == split_by_sep(SubSeq(chars, cut + 1, Len(chars)), s)
         IN  IF cut = 1 THEN rest
             ELSE <<SubSeq(chars, 1, cut - 1)>> \o rest

\* ser.value_counts(ascending=False): the distinct values with their
\* counts, the counts never increasing; values of one count in whatever
\* order the sort leaves them.
value_counts_ascending(values) ==
    LET seen == Dedup(values)
        n    == Len(seen)
        perm == {p \in [1..n -> 1..n] :
                    /\ \A i, j \in 1..n : p[i] = p[j] => i = j
                    /\ \A i \in 1..(n - 1) :
                          Count(values, seen[p[i]]) =< Count(values, seen[p[i + 1]])}
    IN  {<<[i \in 1..n |-> seen[p[i]]],
           [i \in 1..n |-> Count(values, seen[p[i]])]>> : p \in perm}

value_counts(values) ==
    LET seen == Dedup(values)
        n    == Len(seen)
        perm == {p \in [1..n -> 1..n] :
                    /\ \A i, j \in 1..n : p[i] = p[j] => i = j
                    /\ \A i \in 1..(n - 1) :
                          Count(values, seen[p[i]]) >= Count(values, seen[p[i + 1]])}
    IN  {<<[i \in 1..n |-> seen[p[i]]],
           [i \in 1..n |-> Count(values, seen[p[i]])]>> : p \in perm}

\* StatType.compute(ser, sep): the values it may return, or the exception.
compute(stat_type, values, sep_arg) ==
    IF stat_type \in {"MEAN", "STD", "QUANTILES"}
    THEN LET flattened == Hstack(values)
             finite    == FiniteOf(flattened)
         IN  IF flattened = <<>> THEN {Failed("ValueError")}
             ELSE IF finite = <<>>
             THEN {Computed(_default_values(stat_type))}
             ELSE IF stat_type = "MEAN" THEN {Computed(NpMean(finite))}
             ELSE IF stat_type = "STD" THEN {Computed(NpStd(finite))}
             ELSE {Computed([k \in 1..5 |-> NpQuantile(finite, k - 1)])}
    ELSE IF stat_type = "COUNT"
    THEN {Computed(c) : c \in value_counts([i \in DOMAIN values |-> values[i].items])}
    ELSE IF sep_arg.is_none THEN {Failed("MissingSeparatorError")}
    ELSE {Computed(c) : c \in value_counts(
              Flatten([i \in DOMAIN values |->
                          split_by_sep(values[i].items, sep_arg.s)]))}

\* ser.mask(ser.isin([np.inf, -np.inf]), np.nan)
MaskInf(values) ==
    [i \in DOMAIN values |->
        IF values[i].kind \in {"inf", "-inf"} THEN Missing ELSE values[i]]

\* Mutant of AllNull: isnull().any().
AnyNull(values) == \E i \in DOMAIN values : values[i].kind = "missing"

\* ser.isnull().all()
AllNull(values) == \A i \in DOMAIN values : values[i].kind = "missing"

\* ser.dropna()
DropNa(values) == SelectSeq(values, LAMBDA e : e.kind # "missing")

StatsOk(st) == [called |-> TRUE, ok |-> TRUE, err |-> "none", stats |-> st]

StatsRaised(err) == [called |-> TRUE, ok |-> FALSE, err |-> err, stats |-> <<>>]

NoStats == [called |-> FALSE, ok |-> FALSE, err |-> "none", stats |-> <<>>]

\* The dict comprehension over the statistics of the type, in order: the
\* first exception ends it.
RECURSIVE ComputeEach(_, _, _)
ComputeEach(stat_types, values, sep_arg) ==
    IF stat_types = <<>> THEN {StatsOk(<<>>)}
    ELSE UNION {
           IF ~c.ok THEN {StatsRaised(c.err)}
           ELSE {IF ~rest.ok THEN rest
                 ELSE StatsOk((Head(stat_types) :> c.val) @@ rest.stats) :
                    rest \in ComputeEach(Tail(stat_types), values, sep_arg)} :
           c \in compute(Head(stat_types), values, sep_arg)}

RECURSIVE DefaultEach(_)
DefaultEach(stat_types) ==
    IF stat_types = <<>> THEN <<>>
    ELSE (Head(stat_types) :> _default_values(Head(stat_types)))
             @@ DefaultEach(Tail(stat_types))

\* compute_col_stats(ser, stype, sep): the records it may return, or the
\* exception.
compute_col_stats(values, stype, sep_arg) ==
    LET masked == IF stype = "numerical" THEN MaskInf(values) ELSE values
    IN  IF AllNull(masked)
        THEN {StatsOk(DefaultEach(stats_for_stype(stype)))}
        ELSE ComputeEach(stats_for_stype(stype), DropNa(masked), sep_arg)

-----------------------------------------------------------------------------
(* The frames a caller starts from *)

\* The sequences without repetition over S, the empty one excluded.
DistinctSeqs(S) ==
    {s \in UNION {[1..n -> S] : n \in 1..Cardinality(S)} :
        \A i, j \in DOMAIN s : s[i] = s[j] => i = j}

Schemas ==
    UNION {{[keys |-> ks, map |-> m] : m \in [Range(ks) -> DistinctSeqs(Names)]} :
           ks \in DistinctSeqs(Stypes)}

TotalCols(schema) == SeqSum([k \in DOMAIN schema.keys |-> Len(schema.map[schema.keys[k]])])

Storages(st, nrows, ncols) ==
    IF use_multi_nested_tensor(st)
    THEN {MNTFromCells(g, ncols) : g \in [1..nrows -> [1..ncols -> RaggedCells]]}
    ELSE [1..nrows -> [1..ncols -> Values]]

\* The feat_dict maps of a schema: one storage per semantic type.
RECURSIVE FeatMapsOver(_, _, _)
FeatMapsOver(keys, schema, nrows) ==
    IF keys = <<>> THEN {<<>>}
    ELSE {(Head(keys) :> f) @@ m :
             f \in Storages(Head(keys), nrows, Len(schema.map[Head(keys)])),
             m \in FeatMapsOver(Tail(keys), schema, nrows)}

FeatMaps(schema, nrows) == FeatMapsOver(schema.keys, schema, nrows)

FramesOfShape(nrows, schema, has_y) ==
    {[feat_dict |-> [keys |-> schema.keys, map |-> m],
      col_names_dict |-> schema,
      y |-> y] :
        m \in FeatMaps(schema, nrows),
        y \in IF has_y = 1 THEN {SomeY(d) : d \in [1..nrows -> Values]}
              ELSE {NoneY}}

\* The frames of w tensor elements, the target's included.
FramesOfCells(w) ==
    UNION {FramesOfShape(sh[1], sh[2], sh[3]) :
           sh \in {x \in (1..w) \X Schemas \X {0, 1} :
                      x[1] * (TotalCols(x[2]) + x[3]) = w}}

FramesByCells == [w \in 1..(MaxSize - 1) |-> FramesOfCells(w)]

\* The size of a frame: one plus its tensor elements, the target's included.
FrameSize(tf) ==
    1 + num_rows(tf) * (TotalCols(tf.col_names_dict) + IF tf.y.is_none THEN 0 ELSE 1)

-----------------------------------------------------------------------------
(* The state machine *)

\* Either frames are concatenated (stype_arg is "none") or the statistics
\* of one column of semantic type stype_arg are computed.
Init ==
    /\ pool = <<>>
    /\ tf_list = <<>>
    /\ along = "none"
    /\ result = NoCall
    /\ calls = 0
    /\ ser = <<>>
    /\ stats = NoStats
    /\ \/ stype_arg = "none" /\ sep = NoneSep
       \/ stype_arg \in StatStypes /\ sep \in {NoneSep, SomeSep("/")}

\* The caller gathers one more frame, within the bound on the list's size.
AddFrame ==
    /\ stype_arg = "none"
    /\ calls = 0
    /\ \E w \in 1..(MaxSize - 1 - SeqSum([i \in DOMAIN pool |-> FrameSize(pool[i])])) :
          \E f \in FramesByCells[w] : pool' = Append(pool, f)
    /\ UNCHANGED <<tf_list, along, result, calls, ser, stype_arg, sep, stats>>

\* The column gets one more value, within the bound on its entries.
AddValue ==
    /\ stype_arg # "none"
    /\ ~stats.called
    /\ \E n \in 1..Room(stype_arg, ser) :
          \E e \in Elements(stype_arg, n) : ser' = Append(ser, e)
    /\ UNCHANGED <<pool, tf_list, along, result, calls, stype_arg, sep, stats>>

ComputeColStats ==
    /\ stype_arg # "none"
    /\ ~stats.called
    /\ stats' \in compute_col_stats(ser, stype_arg, sep)
    /\ UNCHANGED <<pool, tf_list, along, result, calls, ser, stype_arg, sep>>

\* The lists a call may be given: at first the caller's frames, later the
\* frame returned last together with one of the caller's frames.
ArgLists ==
    IF calls = 0 THEN {pool}
    ELSE IF result.ok
    THEN {<<result.tf, result.tf>>}
         \cup {<<result.tf, pool[i]>> : i \in DOMAIN pool}
         \cup {<<pool[i], result.tf>> : i \in DOMAIN pool}
    ELSE {}

Call(l, along_arg) ==
    /\ stype_arg = "none"
    /\ calls < MaxCalls
    /\ tf_list' = l
    /\ along' = along_arg
    /\ result' = cat(l, along_arg)
    /\ calls' = calls + 1
    /\ UNCHANGED <<pool, ser, stype_arg, sep, stats>>

CatRows == \E l \in ArgLists : Call(l, "row")

CatCols == \E l \in ArgLists : Call(l, "col")

CatOther == \E l \in ArgLists : Call(l, "column")

Next ==
    AddFrame \/ CatRows \/ CatCols \/ CatOther \/ AddValue \/ ComputeColStats

Spec == Init /\ [][Next]_vars

-----------------------------------------------------------------------------
(* What the claims speak of, stated on the inputs and the result of the    *)
(* last call                                                               *)

RowCall == calls >= 1 /\ along = "row" /\ tf_list # <<>>

ColCall == calls >= 1 /\ along = "col" /\ tf_list # <<>>

\* Two column_names mappings differ: another set of semantic types, or for
\* a shared type another length, or another name at some position.
MappingDiffers(d1, d2) ==
    \/ DOMAIN d1.map # DOMAIN d2.map
    \/ \E st \in DOMAIN d1.map \cap DOMAIN d2.map :
          \/ Len(d1.map[st]) # Len(d2.map[st])
          \/ \E k \in DOMAIN d1.map[st] : d1.map[st][k] # d2.map[st][k]

SomeMappingDiffers ==
    \E i \in DOMAIN tf_list :
        MappingDiffers(tf_list[i].col_names_dict, tf_list[1].col_names_dict)

RowCountsDiffer ==
    \E i, j \in DOMAIN tf_list : num_rows(tf_list[i]) # num_rows(tf_list[j])

WithTarget == {i \in DOMAIN tf_list : ~tf_list[i].y.is_none}

\* The stypes of the inputs and, per stype, the places <<frame, position>>
\* of its column names over the whole list.
InputStypes == UNION {DOMAIN tf_list[i].col_names_dict.map : i \in DOMAIN tf_list}

Places(st) ==
    UNION {{<<i, k>> : k \in DOMAIN tf_list[i].col_names_dict.map[st]} :
           i \in {j \in DOMAIN tf_list : st \in DOMAIN tf_list[j].col_names_dict.map}}

NameAt(st, p) == tf_list[p[1]].col_names_dict.map[st][p[2]]

\* The names that occur at two places of semantic type st.
DuplicatedNames(st) ==
    {NameAt(st, p) : p \in {p \in Places(st) :
        \E q \in Places(st) : q # p /\ NameAt(st, q) = NameAt(st, p)}}

SomeDuplicate == \E st \in InputStypes : DuplicatedNames(st) # {}

\* The column of the result that the column at place p of st went to.
ColumnOf(st, p) ==
    SeqSum([i \in 1..(p[1] - 1) |->
               IF st \in DOMAIN tf_list[i].col_names_dict.map
               THEN Len(tf_list[i].col_names_dict.map[st]) ELSE 0]) + p[2]

Grid(tf, st) == FeatGrid(st, tf.feat_dict.map[st])

\* A MultiNestedTensor is the one its cells make.
Canonical(tf) ==
    \A st \in DOMAIN tf.feat_dict.map :
        use_multi_nested_tensor(st) =>
            tf.feat_dict.map[st] =
                MNTFromCells(Grid(tf, st), tf.feat_dict.map[st].num_cols)

-----------------------------------------------------------------------------
(* C1 *)

\* C1: cat_rows on a non-empty list raises SchemaMismatch and returns no
\* frame whenever some frame's column_names mapping differs from the first
\* frame's (other stypes, another name, or the same names in another
\* order); when every mapping equals the first this check does not fail.
C1_SchemaMismatch ==
    RowCall =>
        /\ SomeMappingDiffers =>
              ~result.ok /\ result.tf = NoFrame /\ result.err = "SchemaMismatch"
        /\ ~SomeMappingDiffers => result.err # "SchemaMismatch"

\* The same names of one stype in another order: the call raised.
C1_Witness ==
    /\ RowCall
    /\ result.err = "SchemaMismatch"
    /\ \E i \in DOMAIN tf_list :
          /\ DOMAIN tf_list[i].col_names_dict.map = DOMAIN tf_list[1].col_names_dict.map
          /\ \A st \in DOMAIN tf_list[1].col_names_dict.map :
                Range(tf_list[i].col_names_dict.map[st])
                    = Range(tf_list[1].col_names_dict.map[st])
          /\ tf_list[i].col_names_dict.map # tf_list[1].col_names_dict.map

-----------------------------------------------------------------------------
(* C2 *)

\* The error the earlier checks of cat_cols raise, "none" when they pass.
EarlierColError ==
    IF Cardinality(WithTarget) > 1 THEN "AmbiguousTargetError"
    ELSE IF SomeDuplicate THEN "DuplicateColumnError"
    ELSE "none"

\* C2 as claimed: cat_cols raises RowCountMismatch and returns no frame
\* whenever two inputs have different row counts, whatever the inputs.
C2_AsClaimed ==
    (ColCall /\ RowCountsDiffer) =>
        ~result.ok /\ result.tf = NoFrame /\ result.err = "RowCountMismatch"

\* C2, amended: cat_cols raises and returns no frame whenever two inputs
\* have different row counts, also when the inputs share no stype or have
\* no target; the error is RowCountMismatch unless more than one input
\* carries a target (AmbiguousTargetError) or a name is duplicated within
\* a stype (DuplicateColumnError), which are checked first.
C2_RowCountMismatch ==
    (ColCall /\ RowCountsDiffer) =>
        /\ ~result.ok
        /\ result.tf = NoFrame
        /\ result.err = IF EarlierColError = "none" THEN "RowCountMismatch"
                        ELSE EarlierColError

\* Different row counts, no stype in common, no target: RowCountMismatch.
C2_Witness ==
    /\ ColCall
    /\ RowCountsDiffer
    /\ WithTarget = {}
    /\ \A i, j \in DOMAIN tf_list :
          i # j => DOMAIN tf_list[i].feat_dict.map \cap DOMAIN tf_list[j].feat_dict.map = {}
    /\ result.err = "RowCountMismatch"

-----------------------------------------------------------------------------
(* C3 *)

\* C3: cat_cols raises AmbiguousTargetError exactly when more than one
\* input carries a target; a frame it returns has the target of the single
\* input that carries one, wherever it is in the list, and no target when
\* no input carries one.
C3_AmbiguousTarget ==
    ColCall =>
        /\ result.err = "AmbiguousTargetError" <=> Cardinality(WithTarget) > 1
        /\ result.ok =>
              /\ WithTarget = {} => result.tf.y = NoneY
              /\ \A i \in WithTarget : result.tf.y = tf_list[i].y

\* The single target is carried by a frame that is not the first.
C3_Witness ==
    /\ ColCall
    /\ result.ok
    /\ \E i \in WithTarget : i > 1 /\ result.tf.y = tf_list[i].y

-----------------------------------------------------------------------------
(* C4 *)

DuplicateErrorNamesThem ==
    result.err = "DuplicateColumnError" =>
        /\ result.storage_cats = 0
        /\ result.stype \in InputStypes
        /\ DuplicatedNames(result.stype) # {}
        /\ Range(result.names) = DuplicatedNames(result.stype)
        /\ Len(result.names) = Cardinality(DuplicatedNames(result.stype))

\* C4 as claimed: cat_cols raises DuplicateColumnError exactly when some
\* stype's concatenated name list holds a name more than once.
C4_AsClaimed ==
    ColCall => (result.err = "DuplicateColumnError" <=> SomeDuplicate)

\* C4, amended: cat_cols raises DuplicateColumnError, before any storage is
\* concatenated, exactly when at most one input carries a target and some
\* stype's concatenated name list holds a name more than once; the error
\* names such a stype and every name duplicated within it.  A name under
\* two different stypes is no duplicate.
C4_DuplicateColumn ==
    ColCall =>
        /\ result.err = "DuplicateColumnError"
              <=> (Cardinality(WithTarget) <= 1 /\ SomeDuplicate)
        /\ DuplicateErrorNamesThem

\* A name duplicated within one stype that another stype holds once: the
\* error names the first stype only.
C4_Witness ==
    /\ ColCall
    /\ result.err = "DuplicateColumnError"
    /\ \E st \in InputStypes \ {result.stype} :
          /\ DuplicatedNames(st) = {}
          /\ \E p \in Places(st) : NameAt(st, p) \in Range(result.names)

-----------------------------------------------------------------------------
(* C5 *)

TargetsDisagree == WithTarget # {} /\ WithTarget # DOMAIN tf_list

\* C5: cat_rows of frames with identical column_names raises
\* TargetMismatch and returns no frame exactly when some frame has a target
\* and some has none, wherever they are in the list; when all have one the
\* result's target is the targets in list order, when none has one the
\* result has none.
C5_TargetMismatch ==
    (RowCall /\ ~SomeMappingDiffers) =>
        /\ result.err = "TargetMismatch" <=> TargetsDisagree
        /\ TargetsDisagree => ~result.ok /\ result.tf = NoFrame
        /\ ~TargetsDisagree =>
              /\ result.ok
              /\ result.tf.y.is_none <=> WithTarget = {}
              /\ result.tf.y.data =
                    Flatten([i \in DOMAIN tf_list |-> tf_list[i].y.data])

\* The first frame has a target and a later one has none.
C5_Witness ==
    /\ RowCall
    /\ ~SomeMappingDiffers
    /\ 1 \in WithTarget
    /\ \E i \in DOMAIN tf_list : i > 1 /\ i \notin WithTarget
    /\ result.err = "TargetMismatch"

-----------------------------------------------------------------------------
(* C6 *)

\* The result of cat_rows([A, B]) is A's rows followed by B's.
RowsOfAThenB(A, B, R) ==
    /\ num_rows(R) = num_rows(A) + num_rows(B)
    /\ R.col_names_dict.map = A.col_names_dict.map
    /\ DOMAIN R.feat_dict.map = DOMAIN A.feat_dict.map
    /\ Canonical(R)
    /\ \A st \in DOMAIN A.feat_dict.map :
          /\ FeatRows(st, R.feat_dict.map[st]) = num_rows(A) + num_rows(B)
          /\ SubSeq(Grid(R, st), 1, num_rows(A)) = Grid(A, st)
          /\ SubSeq(Grid(R, st), num_rows(A) + 1, num_rows(A) + num_rows(B))
                = Grid(B, st)
    /\ R.y.is_none = A.y.is_none
    /\ SubSeq(R.y.data, 1, Len(A.y.data)) = A.y.data
    /\ SubSeq(R.y.data, Len(A.y.data) + 1, Len(R.y.data)) = B.y.data

\* C6 as claimed: for all A and B with identical schemas cat_rows([A, B])
\* returns A's rows followed by B's.
C6_AsClaimed ==
    (RowCall /\ Len(tf_list) = 2 /\ ~SomeMappingDiffers) =>
        result.ok /\ RowsOfAThenB(tf_list[1], tf_list[2], result.tf)

\* C6, amended: for all A and B with identical schemas that both have a
\* target or both have none, cat_rows([A, B]) returns a frame of
\* A.num_rows + B.num_rows rows with A's column names and stypes, whose
\* first A.num_rows rows (every storage and the target) are A and whose
\* other rows are B's in order.
C6_RowsConcatenated ==
    (RowCall /\ Len(tf_list) = 2 /\ ~SomeMappingDiffers /\ ~TargetsDisagree) =>
        result.ok /\ RowsOfAThenB(tf_list[1], tf_list[2], result.tf)

\* A and B differ in a storage and in the target.
C6_Witness ==
    /\ RowCall /\ Len(tf_list) = 2 /\ result.ok
    /\ tf_list[1].y # tf_list[2].y /\ ~tf_list[1].y.is_none
    /\ \E st \in DOMAIN tf_list[1].feat_dict.map :
          tf_list[1].feat_dict.map[st] # tf_list[2].feat_dict.map[st]

-----------------------------------------------------------------------------
(* C7 *)

NamesPerTypeDisjoint == ~SomeDuplicate

\* Per stype the result's names are the inputs' names in list order, and
\* the column at place p of an input is column ColumnOf(st, p) of the
\* result.
ColumnsInInputOrder(R) ==
    /\ DOMAIN R.col_names_dict.map = InputStypes
    /\ DOMAIN R.feat_dict.map = InputStypes
    /\ Canonical(R)
    /\ \A st \in InputStypes :
          /\ Len(R.col_names_dict.map[st]) = Cardinality(Places(st))
          /\ FeatCols(st, R.feat_dict.map[st]) = Cardinality(Places(st))
          /\ \A p \in Places(st) :
                /\ R.col_names_dict.map[st][ColumnOf(st, p)] = NameAt(st, p)
                /\ \A r \in 1..num_rows(R) :
                      Grid(R, st)[r][ColumnOf(st, p)] = Grid(tf_list[p[1]], st)[r][p[2]]
                /\ \A q \in Places(st) :
                      (q[1] < p[1] \/ (q[1] = p[1] /\ q[2] < p[2]))
                          => ColumnOf(st, q) < ColumnOf(st, p)

\* The columns of R whose names are those of stype st of input i, in the
\* order R has them: the split of R by the original column names.
SplitColumns(R, st, i) ==
    LET names == Range(tf_list[i].col_names_dict.map[st])
        cols  == SelectSeq([c \in 1..Len(R.col_names_dict.map[st]) |-> c],
                           LAMBDA c : R.col_names_dict.map[st][c] \in names)
    IN  [names |-> [k \in DOMAIN cols |-> R.col_names_dict.map[st][cols[k]]],
         grid  |-> [r \in 1..num_rows(R) |->
                       [k \in DOMAIN cols |-> Grid(R, st)[r][cols[k]]]]]

SplitReconstructs(R) ==
    \A i \in DOMAIN tf_list :
        \A st \in DOMAIN tf_list[i].col_names_dict.map :
            /\ st \in DOMAIN R.col_names_dict.map
            /\ SplitColumns(R, st, i).names = tf_list[i].col_names_dict.map[st]
            /\ SplitColumns(R, st, i).grid = Grid(tf_list[i], st)

\* C7: for frames of equal row counts and per-type disjoint names, the
\* frame cat_cols returns has per stype of any input the inputs' name
\* lists in list order and the storage columns in that order; splitting it
\* by the original names gives the inputs back, also when they carry
\* different sets of stypes.
C7_ColumnsConcatenated ==
    (ColCall /\ ~RowCountsDiffer /\ NamesPerTypeDisjoint /\ result.ok) =>
        /\ num_rows(result.tf) = num_rows(tf_list[1])
        /\ ColumnsInInputOrder(result.tf)
        /\ SplitReconstructs(result.tf)

\* Two inputs with different sets of stypes, one stype in both.
C7_Witness ==
    /\ ColCall /\ result.ok /\ Len(tf_list) >= 2
    /\ DOMAIN tf_list[1].feat_dict.map # DOMAIN tf_list[2].feat_dict.map
    /\ DOMAIN tf_list[1].feat_dict.map \cap DOMAIN tf_list[2].feat_dict.map # {}
    /\ \E st \in InputStypes : Len(result.tf.col_names_dict.map[st]) >= 2

-----------------------------------------------------------------------------
(* C8 *)

ConstructionReached(tfs, along_arg) ==
    IF along_arg = "row"
    THEN /\ \A i \in DOMAIN tfs : ~DictDiffers(tfs[i].col_names_dict, tfs[1].col_names_dict)
         /\ \A i \in DOMAIN tfs : tfs[i].y.is_none = tfs[1].y.is_none
         /\ _cat_row_args(tfs).feat.ok
    ELSE /\ Cardinality(idx_with_non_nan_y(tfs)) <= 1
         /\ DuplicatedAt(MergedColNames(tfs)) = {}
         /\ _cat_col_args(tfs).feat.ok

ArgsOf(tfs, along_arg) ==
    IF along_arg = "row" THEN _cat_row_args(tfs) ELSE _cat_col_args(tfs)

\* C8: starting from frames that satisfy the Frame invariants, every frame
\* a sequence of cat_rows and cat_cols calls returns (results fed back as
\* inputs) satisfies them: column-name counts equal storage column counts,
\* all storages and the target share one row count, names are unique
\* within a stype, a stype in storage has a column.  What cat hands to the
\* constructor already has the same stypes in both dicts, matching column
\* counts, unique names and no empty stype.
C8_InvariantsPreserved ==
    /\ \A i \in DOMAIN pool : FrameInvariants(pool[i])
    /\ \A i \in DOMAIN tf_list : FrameInvariants(tf_list[i])
    /\ result.ok => FrameInvariants(result.tf) /\ Canonical(result.tf)
    /\ ((RowCall \/ ColCall) /\ ConstructionReached(tf_list, along)) =>
          LET a == ArgsOf(tf_list, along)
          IN  /\ SameStypes(a.feat.feat_dict, a.col_names_dict)
              /\ ColumnCountsMatch(a.feat.feat_dict, a.col_names_dict)
              /\ NamesUnique(a.col_names_dict)
              /\ NoEmptyStype(a.feat.feat_dict, a.col_names_dict)

\* A frame returned by one call went into the next, which returned a frame
\* of more rows and more columns than any the caller started from.
C8_Witness ==
    /\ calls = 2 /\ result.ok
    /\ \E i \in DOMAIN pool :
          /\ num_rows(result.tf) > num_rows(pool[i])
          /\ TotalCols(result.tf.col_names_dict) > TotalCols(pool[i].col_names_dict)

-----------------------------------------------------------------------------
(* C9 *)

NumericColumn == stype_arg \in {"numerical", "sequence_numerical"}

\* The finite numbers of the column, value by value, the lists opened.
RECURSIVE FiniteEntries(_)
FiniteEntries(values) ==
    IF values = <<>> THEN <<>>
    ELSE LET e == Head(values)
             own == IF e.kind = "finite" THEN <<e.v>>
                    ELSE IF e.kind = "list"
                    THEN LET kept == SelectSeq(e.items, LAMBDA x : x.kind = "finite")
                         IN  [i \in DOMAIN kept |-> kept[i].v]
                    ELSE <<>>
         IN  own \o FiniteEntries(Tail(values))

\* The mean, the population standard deviation and the five quantiles of
\* the numbers xs: what the record must hold.
StatisticsOf(st, xs) ==
    LET n  == Len(xs)
        s1 == SeqSum(xs)
        s2 == SeqSum([i \in DOMAIN xs |-> xs[i] * xs[i]])
    IN  /\ st["MEAN"].kind = "rat" /\ st["MEAN"].num * n = s1 * st["MEAN"].den
        /\ st["STD"].kind = "sqrt"
        /\ st["STD"].num * n * n = (n * s2 - s1 * s1) * st["STD"].den
        /\ Len(st["QUANTILES"]) = 5
        /\ \A k \in 1..5 : st["QUANTILES"][k] = NpQuantile(xs, k - 1)
        /\ \A i \in DOMAIN xs :
              /\ st["QUANTILES"][1].num <= xs[i] * st["QUANTILES"][1].den
              /\ st["QUANTILES"][5].num >= xs[i] * st["QUANTILES"][5].den

NumericStatsAsSpecified ==
    /\ stats.ok
    /\ DOMAIN stats.stats = {"MEAN", "STD", "QUANTILES"}
    /\ IF FiniteEntries(ser) = <<>>
       THEN /\ stats.stats["MEAN"] = NaN
            /\ stats.stats["STD"] = NaN
            /\ stats.stats["QUANTILES"] = <<NaN, NaN, NaN, NaN, NaN>>
       ELSE StatisticsOf(stats.stats, FiniteEntries(ser))

\* C9: compute_col_stats on a numerical or sequence-numerical column
\* without a finite entry raises nothing and returns mean = NaN, std = NaN
\* and five NaN quantiles; with a finite entry the three statistics are
\* those of the finite entries.
C9_AsClaimed == (stats.called /\ NumericColumn) => NumericStatsAsSpecified

\* C9 holds of every column but those whose present values are all empty
\* sequences.
C9_ExceptEmptySequences ==
    (stats.called /\ NumericColumn) =>
        IF /\ \E i \in DOMAIN ser : ser[i].kind # "missing"
           /\ \A j \in DOMAIN ser :
                 ser[j].kind \in {"missing", "list"} /\ ser[j].items = <<>>
        THEN ~stats.ok /\ stats.err = "ValueError"
        ELSE NumericStatsAsSpecified

-----------------------------------------------------------------------------
(* C10 *)

NoSeparatorCall ==
    stats.called /\ stype_arg = "multicategorical" /\ sep.is_none

\* C10 as claimed: for every multicategorical column, also one whose values
\* are all missing, compute_col_stats without a separator raises
\* MissingSeparatorError and returns no record.
C10_AsClaimed ==
    NoSeparatorCall =>
        ~stats.ok /\ stats.err = "MissingSeparatorError" /\ stats.stats = <<>>

\* C10, amended: for every multicategorical column with at least one value
\* that is not missing, compute_col_stats without a separator raises
\* MissingSeparatorError and returns no record; for a column whose values
\* are all missing (or that has no value) it raises nothing and returns the
\* empty frequency table.
C10_MissingSeparator ==
    NoSeparatorCall =>
        IF \E i \in DOMAIN ser : ser[i].kind # "missing"
        THEN ~stats.ok /\ stats.err = "MissingSeparatorError" /\ stats.stats = <<>>
        ELSE /\ stats.ok
             /\ DOMAIN stats.stats = {"MULTI_COUNT"}
             /\ stats.stats["MULTI_COUNT"] = <<<<>>, <<>>>>

\* A column with a missing value and a present one: the call raised.
C10_Witness ==
    /\ NoSeparatorCall
    /\ \E i, j \in DOMAIN ser : ser[i].kind = "missing" /\ ser[j].kind = "str"
    /\ stats.err = "MissingSeparatorError"

-----------------------------------------------------------------------------
(* C11: the frequency table of a categorical column *)

CategoricalCall == stats.called /\ stype_arg = "categorical"

\* The places of the column whose value is not missing.
Present == {i \in DOMAIN ser : ser[i].kind # "missing"}

Occurrences(label) == Cardinality({i \in Present : ser[i].items = label})

\* Where a label of the column occurs first.
FirstAt(label) ==
    CHOOSE i \in Present :
        /\ ser[i].items = label
        /\ \A j \in Present : ser[j].items = label => i =< j

\* table = (values, counts): every distinct value of the column that is not
\* missing is in values exactly once, counts[i] is the number of occurrences
\* of values[i], and the counts never increase.
FrequencyTable(table) ==
    LET values == table[1]
        counts == table[2]
    IN  /\ Len(values) = Len(counts)
        /\ Range(values) = {ser[i].items : i \in Present}
        /\ \A i, j \in DOMAIN values : values[i] = values[j] => i = j
        /\ \A i \in DOMAIN values : counts[i] = Occurrences(values[i])
        /\ \A i \in DOMAIN values :
              i < Len(values) => counts[i] >= counts[i + 1]

\* Values with equal counts stand in the order of their first occurrence.
TiesInFirstOccurrenceOrder(table) ==
    LET values == table[1]
        counts == table[2]
    IN  \A i, j \in DOMAIN values :
            i < j /\ counts[i] = counts[j]
                => FirstAt(values[i]) < FirstAt(values[j])

\* The column [a, b, a, c, b, a] and its table ([a, b, c], [3, 2, 1]).
ExampleColumn ==
    <<Str(<<"a">>), Str(<<"b">>), Str(<<"a">>), Str(<<"c">>), Str(<<"b">>),
      Str(<<"a">>)>>

ExampleTable == << <<<<"a">>, <<"b">>, <<"c">>>>, <<3, 2, 1>> >>

ReturnsTable ==
    /\ stats.ok
    /\ DOMAIN stats.stats = {"COUNT"}
    /\ FrequencyTable(stats.stats["COUNT"])
    /\ ser = ExampleColumn => stats.stats["COUNT"] = ExampleTable

====
